---- MODULE Spec2Model ----
(***************************************************************************)
(* Model of src/terminal.py: the Zim terminal plugin.                      *)
(*                                                                         *)
(* TerminalWindowExtension owns one TerminalPluginWidget, which wraps one  *)
(* ZimTerminal (a Vte.Terminal).  The host delivers GTK events one at a    *)
(* time on the main loop, so every handler is one atomic action.           *)
(*                                                                         *)
(* Strings are sequences of one-character strings, byte strings sequences  *)
(* of byte tokens ("C3", "A9" for the two bytes of a non-ASCII character). *)
(* Filesystem paths are the sequences of their components (<<>> is "/").   *)
(***************************************************************************)
EXTENDS Integers, Sequences, FiniteSets, TLC

VARIABLES
    pc,           \* position in TerminalWindowExtension.__init__ / the main loop
    preferences,  \* plugin.preferences, the host's preference dict
    folder,       \* TerminalPluginWidget.folder (NoFolder: attribute never assigned)
    notified,     \* history: the folder of the most recent page-changed notification
    fs,           \* the directories that exist (what os.path.isdir answers True for)
    vte,          \* which feed_child API the installed Vte offers
    ptys,         \* the sessions (pty + child) the terminal view references
    session,      \* [dir, argv] the referenced child was spawned with
    view,         \* the terminal view's appearance and GUI state
    trace,        \* the calls the last handler made into Vte, in order
    lastOp,       \* the handler that ran last
    command,      \* the string last handed to execute_command by a caller
    raised,       \* the exception it left with ("none" when it returned)
    result        \* the value the last evaluated property returned

vars == <<pc, preferences, folder, notified, fs, vte, ptys, session, view,
          trace, lastOp, command, raised, result>>

----------------------------------------------------------------------------
(* Program constants                                                       *)

FONT_SIZE_MIN == 6
FONT_SIZE_MAX == 72
DEFAULT_FONT_SIZE == 9
DEFAULT_FONT_COLOR == "#FFFFFF"
DEFAULT_BACKGROUND_COLOR == "#000000"
DEFAULT_COMMAND_INTERPRETER == "/bin/bash"
CLEAR_COMMAND == <<"c", "l", "e", "a", "r">>
DEFAULT_AUTO_SWITCH_PATH_ON_PAGE_CHANGE == TRUE
PANGO_SCALE == 1024

----------------------------------------------------------------------------
(* Bounds                                                                  *)

MaxDepth == 2        \* deepest directory of the modelled filesystem
MaxEdits == 1        \* settings one visit to the preferences dialog changes
MaxCmdLen == 3       \* longest string handed to execute_command
FontSizeSlack == 1   \* how far outside [MIN, MAX] a requested font size lies

----------------------------------------------------------------------------
(* Values                                                                  *)

NoFolder == [isset |-> FALSE, path |-> <<>>]    \* the attribute does not exist
Folder(p) == [isset |-> TRUE, path |-> p]      \* folder._inner_fs_object.path = p
NoPage == [isset |-> FALSE, path |-> <<>>]      \* pageview.page is None
HOME == <<"home">>

TreeNames == {"a", "b"}

RECURSIVE PathsUpTo(_, _)
PathsUpTo(names, d) ==
    IF d = 0 THEN {<<>>}
    ELSE LET shorter == PathsUpTo(names, d - 1)
         IN  shorter \cup {Append(p, n) : p \in shorter, n \in names}

\* Path(_path).parent: the path without its last component; "/" is its own parent.
Parent(p) == IF p = <<>> THEN <<>> ELSE SubSeq(p, 1, Len(p) - 1)

\* The sets of directories a filesystem over these paths can hold: "/" exists,
\* and a directory exists only inside an existing directory.
FsStates(paths) ==
    {S \in SUBSET paths :
        /\ <<>> \in S
        /\ \A p \in S : Parent(p) \in S}

\* Every path of the tree the path property is evaluated over.
TreePaths == PathsUpTo(TreeNames, MaxDepth)
TreeFs == FsStates(TreePaths)

\* Attachment folders the notebook hands out to the running widget: a page's
\* folder and a sub-page's, both below the notebook root "/".
Folders == {<<"a">>, <<"a", "a">>}
NotebookFs == FsStates({<<>>} \cup Folders)

Interpreters == {DEFAULT_COMMAND_INTERPRETER, "/bin/sh"}
FontColors == {DEFAULT_FONT_COLOR, "#000000"}
BackgroundColors == {DEFAULT_BACKGROUND_COLOR}
FontSizes ==
    ((FONT_SIZE_MIN - FontSizeSlack) .. FONT_SIZE_MIN)
        \cup (FONT_SIZE_MAX .. (FONT_SIZE_MAX + FontSizeSlack))

Keys == {"font_size", "font_color", "background_color",
         "command_interpreter", "auto_switch_path_on_page_change"}

\* The values a caller may try to store under a key.
Candidates(key) ==
    CASE key = "font_size" -> FontSizes
      [] key = "font_color" -> FontColors
      [] key = "background_color" -> BackgroundColors
      [] key = "command_interpreter" -> Interpreters
      [] key = "auto_switch_path_on_page_change" -> BOOLEAN

\* The call that ends up writing to the child: feed_child_binary(bytes), or
\* feed_child(text, length) where Vte is older than 0.42 or raised TypeError.
VteApis == {"feed_child_binary", "feed_child"}
Chars == {"l", "\n", "e'"}     \* "e'" stands for a non-ASCII character

RECURSIVE StringsUpTo(_)
StringsUpTo(n) ==
    IF n = 0 THEN {<<>>}
    ELSE LET shorter == StringsUpTo(n - 1)
         IN  shorter \cup {Append(s, c) : s \in shorter, c \in Chars}

Commands == StringsUpTo(MaxCmdLen)

----------------------------------------------------------------------------
(* plugin_preferences: the declared type and check of every key.  The host *)
(* preference dict stores a value only when it passes the declared check   *)
(* and raises ValueError otherwise.                                        *)

\* variant: font_size declared without its (FONT_SIZE_MIN, FONT_SIZE_MAX) check
plugin_preferences_unchecked(key, value) ==
    CASE key = "font_size" -> value \in Int
      [] key = "font_color" -> value \in FontColors
      [] key = "background_color" -> value \in BackgroundColors
      [] key = "command_interpreter" -> value \in Interpreters
      [] key = "auto_switch_path_on_page_change" -> value \in BOOLEAN

plugin_preferences(key, value) ==
    CASE key = "font_size" ->
            value \in Int /\ FONT_SIZE_MIN <= value /\ value <= FONT_SIZE_MAX
      [] key = "font_color" -> value \in FontColors
      [] key = "background_color" -> value \in BackgroundColors
      [] key = "command_interpreter" -> value \in Interpreters
      [] key = "auto_switch_path_on_page_change" -> value \in BOOLEAN

\* Every preference dict the host can hold.
ValidPreferences ==
    {p \in [font_size : FontSizes,
            font_color : FontColors,
            background_color : BackgroundColors,
            command_interpreter : Interpreters,
            auto_switch_path_on_page_change : BOOLEAN] :
        \A key \in Keys : plugin_preferences(key, p[key])}

----------------------------------------------------------------------------
(* Properties of TerminalPluginWidget                                      *)

font_size(p) == p["font_size"]

\* Gdk.RGBA.parse of a "#RRGGBB" string
rgba_parse(color) ==
    CASE color = "#FFFFFF" -> <<255, 255, 255>>
      [] color = "#000000" -> <<0, 0, 0>>

font_color(p) == rgba_parse(p["font_color"])
background_color(p) == rgba_parse(p["background_color"])
command_interpreter(p) == p["command_interpreter"]

\* variant: no fallback to the parent directory
path_no_fallback(f, dirs) == f

\* self.path: the folder's path if it is a directory, else its parent.
path(f, dirs) == IF f \in dirs THEN f ELSE Parent(f)

----------------------------------------------------------------------------
(* ZimTerminal                                                             *)

\* str.encode("utf-8") of one character
Utf8(ch) == IF ch = "e'" THEN <<"C3", "A9">> ELSE <<ch>>

RECURSIVE encode(_)
encode(text) ==
    IF text = <<>> THEN <<>> ELSE Utf8(Head(text)) \o encode(Tail(text))

\* ZimTerminal.feed_child: the byte strings that reach the child's input.
\* feed_child_binary takes the encoded bytes; where it is missing or raises
\* TypeError, feed_child(text, len(text)) writes the first len(text) bytes
\* of the text, len(text) counting characters.
feed_child(resolved_cmdline, api) ==
    IF api = "feed_child_binary"
    THEN <<encode(resolved_cmdline)>>
    ELSE <<SubSeq(encode(resolved_cmdline), 1, Len(resolved_cmdline))>>

\* ZimTerminal.execute_command: [exc, fed]; command[-1] of the empty string
\* raises IndexError before anything is fed.
execute_command(cmd, api) ==
    IF cmd = <<>>
    THEN [exc |-> "IndexError", fed |-> <<>>]
    ELSE [exc |-> "none",
          fed |-> feed_child(IF cmd[Len(cmd)] # "\n"
                             THEN Append(cmd, "\n")
                             ELSE cmd, api)]

----------------------------------------------------------------------------
(* Calls into Vte, as the handlers' traces record them                     *)

SpawnEvent(pty, dir, argv, ok) ==
    [op |-> "spawn", pty |-> pty, dir |-> dir, argv |-> argv, data |-> <<>>,
     ok |-> ok]

FeedEvent(pty, data) ==
    [op |-> "feed", pty |-> pty, dir |-> <<>>, argv |-> <<>>, data |-> data,
     ok |-> TRUE]

\* The handle a new pty gets: the lowest one not in use.
NewPty(refs) == CHOOSE n \in 1 .. (Cardinality(refs) + 1) :
                    /\ n \notin refs
                    /\ \A m \in 1 .. (n - 1) : m \in refs

\* variant: the superseded pty stays referenced
spawn_sync_keeps_old(refs, ok) == IF ok THEN refs \cup {NewPty(refs)} ELSE refs

\* Vte.Terminal.spawn_sync as the widget uses it: on success the view's pty is
\* replaced by the new one; on failure GLib.Error is raised and the view keeps
\* the pty it had.
spawn_sync(refs, ok) == IF ok THEN {NewPty(refs)} ELSE refs

\* on_preferences_changed's effect on the view: colours and font size.
apply_appearance(v, p) ==
    [v EXCEPT !.fg = font_color(p),
              !.bg = background_color(p),
              !.font_size = font_size(p) * PANGO_SCALE]

----------------------------------------------------------------------------
(* TerminalPluginWidget.reset_terminal, called with self.folder = f and    *)
(* the preferences p of the moment; ok is whether the OS lets the spawn    *)
(* succeed.  It assigns ptys, session, trace and raised.                   *)

\* variant: the spawn error is caught and the clear command sent regardless
reset_terminal_swallows(f, p, ok) ==
    IF ~f.isset
    THEN /\ raised' = "AttributeError"
         /\ trace' = <<>>
         /\ UNCHANGED <<ptys, session>>
    ELSE LET dir == path(f.path, fs)
             argv == <<command_interpreter(p)>>
             new == NewPty(ptys)
             clear == execute_command(CLEAR_COMMAND, vte)
         IN  /\ ptys' = spawn_sync(ptys, ok)
             /\ session' = IF ok THEN [pty |-> new, dir |-> dir, argv |-> argv]
                                 ELSE session
             /\ trace' = <<SpawnEvent(IF ok THEN new ELSE 0, dir, argv, ok)>>
                            \o [i \in 1 .. Len(clear.fed) |->
                                   FeedEvent(session'.pty, clear.fed[i])]
             /\ raised' = "none"

\* variant: the screen is cleared first, then the shell is respawned
reset_terminal_clears_first(f, p, ok) ==
    IF ~f.isset
    THEN /\ raised' = "AttributeError"
         /\ trace' = <<>>
         /\ UNCHANGED <<ptys, session>>
    ELSE LET dir == path(f.path, fs)
             argv == <<command_interpreter(p)>>
             new == NewPty(ptys)
             clear == execute_command(CLEAR_COMMAND, vte)
         IN  /\ ptys' = spawn_sync(ptys, ok)
             /\ session' = IF ok THEN [pty |-> new, dir |-> dir, argv |-> argv]
                                 ELSE session
             /\ trace' = [i \in 1 .. Len(clear.fed) |->
                             FeedEvent(session.pty, clear.fed[i])]
                            \o <<SpawnEvent(IF ok THEN new ELSE 0, dir, argv, ok)>>
             /\ raised' = IF ok THEN "none" ELSE "GLib.Error"

reset_terminal(f, p, ok) ==
    IF ~f.isset
    THEN \* self.path reads self.folder: AttributeError before any spawn
         /\ raised' = "AttributeError"
         /\ trace' = <<>>
         /\ UNCHANGED <<ptys, session>>
    ELSE LET dir == path(f.path, fs)
             argv == <<command_interpreter(p)>>
             new == NewPty(ptys)
             clear == execute_command(CLEAR_COMMAND, vte)
         IN  IF ok
             THEN /\ ptys' = spawn_sync(ptys, TRUE)
                  /\ session' = [pty |-> new, dir |-> dir, argv |-> argv]
                  /\ trace' = <<SpawnEvent(new, dir, argv, TRUE)>>
                                 \o [i \in 1 .. Len(clear.fed) |->
                                        FeedEvent(new, clear.fed[i])]
                  /\ raised' = clear.exc
             ELSE \* spawn_sync raises GLib.Error; execute_command is not reached
                  /\ ptys' = spawn_sync(ptys, FALSE)
                  /\ session' = session
                  /\ trace' = <<SpawnEvent(0, dir, argv, FALSE)>>
                  /\ raised' = "GLib.Error"

----------------------------------------------------------------------------
(* Handlers of TerminalPluginWidget.  Each assigns folder, preferences,    *)
(* view, ptys, session, trace and raised; the actions below add the rest.  *)

Static == UNCHANGED <<fs, vte, command, result>>

\* variant: the shell is respawned on every page change
set_folder_always_resets(f, ok) ==
    /\ folder' = f
    /\ reset_terminal(f, preferences, ok)
    /\ UNCHANGED <<preferences, view>>

set_folder(f, ok) ==
    /\ folder' = f
    /\ IF preferences["auto_switch_path_on_page_change"]
       THEN reset_terminal(f, preferences, ok)
       ELSE /\ trace' = <<>>
            /\ raised' = "none"
            /\ UNCHANGED <<ptys, session>>
    /\ UNCHANGED <<preferences, view>>

\* variant: a change of preferences restarts the shell
on_preferences_changed_restarts(p) ==
    /\ view' = apply_appearance(view, p)
    /\ reset_terminal(folder, p, TRUE)
    /\ UNCHANGED folder

\* on_preferences_changed, run by the preference dict's 'changed' signal
\* with the dict already holding p.
on_preferences_changed(p) ==
    /\ view' = apply_appearance(view, p)
    /\ trace' = <<>>
    /\ raised' = "none"
    /\ UNCHANGED <<folder, ptys, session>>

\* What the preferences dialog can hold when OK is pressed.
Edited(p) ==
    {q \in ValidPreferences :
        Cardinality({key \in Keys : q[key] # p[key]}) <= MaxEdits}

----------------------------------------------------------------------------
(* Actions: one per event the host delivers                                *)

\* The rest of TerminalWindowExtension.__init__ after the widget is built:
\* on_page_changed when the page view has a page, then the signal hookup.
\* An exception leaves the constructor and the extension is never set up.
TerminalWindowExtension_init ==
    /\ pc = "extension_init"
    /\ \/ /\ \E f \in Folders, ok \in BOOLEAN :
                /\ set_folder(Folder(f), ok)
                /\ notified' = Folder(f)
          /\ pc' = IF raised' = "none" THEN "running" ELSE "failed"
       \/ \* self.pageview.page is None
          /\ pc' = "running"
          /\ trace' = <<>>
          /\ raised' = "none"
          /\ UNCHANGED <<folder, notified, preferences, view, ptys, session>>
    /\ lastOp' = "TerminalWindowExtension.__init__"
    /\ Static

on_page_changed ==
    /\ pc = "running"
    /\ \E f \in Folders, ok \in BOOLEAN :
          /\ set_folder(Folder(f), ok)
          /\ notified' = Folder(f)
    /\ lastOp' = "on_page_changed"
    /\ UNCHANGED pc
    /\ Static

\* The refresh button: reset_terminal, then grab_focus when it returned.
on_change_path_button ==
    /\ pc = "running"
    /\ \E ok \in BOOLEAN : reset_terminal(folder, preferences, ok)
    /\ view' = [view EXCEPT !.focus =
                   IF raised' = "none" THEN "terminal" ELSE "elsewhere"]
    /\ lastOp' = "on_change_path_button"
    /\ UNCHANGED <<pc, preferences, folder, notified>>
    /\ Static

\* The context menu's Reset item: reset_terminal alone.
menu_reset ==
    /\ pc = "running"
    /\ \E ok \in BOOLEAN : reset_terminal(folder, preferences, ok)
    /\ lastOp' = "menu_reset"
    /\ UNCHANGED <<pc, preferences, folder, notified, view>>
    /\ Static

\* show_properties (the properties button and the menu's Preferences item):
\* the modal PluginConfigureDialog; on OK it stores the edited preferences,
\* which runs on_preferences_changed, and show_properties resets the terminal.
show_properties ==
    /\ pc = "running"
    /\ \/ \E p \in Edited(preferences), ok \in BOOLEAN :
             /\ preferences' = p
             /\ view' = [apply_appearance(view, p) EXCEPT !.focus = "elsewhere"]
             /\ reset_terminal(folder, p, ok)
       \/ \* the dialog is cancelled
          /\ view' = [view EXCEPT !.focus = "elsewhere"]
          /\ trace' = <<>>
          /\ raised' = "none"
          /\ UNCHANGED <<preferences, ptys, session>>
    /\ lastOp' = "show_properties"
    /\ UNCHANGED <<pc, folder, notified>>
    /\ Static

\* copy_clipboard (control+shift+C through on_key_press_event, or the menu's
\* Copy item): Vte copies the selection; focus returns to the terminal.
copy_clipboard ==
    /\ pc = "running"
    /\ view' = [view EXCEPT !.focus = "terminal"]
    /\ trace' = <<>>
    /\ raised' = "none"
    /\ lastOp' = "copy_clipboard"
    /\ UNCHANGED <<pc, preferences, folder, notified, ptys, session>>
    /\ Static

ClipboardTexts == {<<>>, <<"l">>}

\* paste_clipboard (control+shift+V, or the menu's Paste item): Vte writes
\* the clipboard's text to the child; focus returns to the terminal.
paste_clipboard ==
    /\ pc = "running"
    /\ \E text \in ClipboardTexts :
          trace' = IF text = <<>> THEN <<>>
                   ELSE <<FeedEvent(session.pty, encode(text))>>
    /\ view' = [view EXCEPT !.focus = "terminal"]
    /\ raised' = "none"
    /\ lastOp' = "paste_clipboard"
    /\ UNCHANGED <<pc, preferences, folder, notified, ptys, session>>
    /\ Static

\* on_button_press: the secondary button pops up the context menu (whose
\* items are the actions above) and the event is consumed; any other button
\* is left to Vte, which takes the focus.
on_button_press ==
    /\ pc = "running"
    /\ \E button \in {1, 3} :
          view' = IF button = 3 THEN view ELSE [view EXCEPT !.focus = "terminal"]
    /\ trace' = <<>>
    /\ raised' = "none"
    /\ lastOp' = "on_button_press"
    /\ UNCHANGED <<pc, preferences, folder, notified, ptys, session>>
    /\ Static

\* on_key_press_event for every key it does not dispatch to copy or paste:
\* another control+shift chord is consumed; any other key is left to Vte,
\* which writes it to the child.
on_key_press_event ==
    /\ pc = "running"
    /\ view.focus = "terminal"
    /\ \E control_key \in BOOLEAN, shift_key \in BOOLEAN :
          trace' = IF control_key /\ shift_key THEN <<>>
                   ELSE <<FeedEvent(session.pty, <<"key">>)>>
    /\ raised' = "none"
    /\ lastOp' = "on_key_press_event"
    /\ UNCHANGED <<pc, preferences, folder, notified, view, ptys, session>>
    /\ Static

\* The host stores one preference (its own preferences dialog, or any code
\* holding the dict): a value that fails the declared check raises ValueError
\* and nothing is stored; a stored value emits 'changed'.
preferences_set ==
    /\ pc \in {"extension_init", "running"}
    /\ \E key \in Keys : \E value \in Candidates(key) :
          IF plugin_preferences(key, value)
          THEN /\ preferences' = [preferences EXCEPT ![key] = value]
               /\ on_preferences_changed(preferences')
          ELSE /\ trace' = <<>>
               /\ raised' = "ValueError"
               /\ UNCHANGED <<preferences, folder, view, ptys, session>>
    /\ lastOp' = "preferences_set"
    /\ UNCHANGED <<pc, notified>>
    /\ Static

\* The user creates or removes a directory of the notebook.
filesystem_changes ==
    /\ \E dirs \in NotebookFs :
          /\ Cardinality((dirs \ fs) \cup (fs \ dirs)) = 1
          /\ fs' = dirs
    /\ UNCHANGED <<pc, preferences, folder, notified, vte, ptys, session, view,
                   trace, lastOp, command, raised, result>>

Init ==
    /\ pc = "extension_init"
    /\ preferences \in ValidPreferences
    /\ folder = NoFolder
    /\ notified = NoFolder
    /\ fs \in NotebookFs
    /\ vte \in VteApis
    /\ ptys = spawn_sync({}, TRUE)
    /\ session = [pty |-> NewPty({}), dir |-> HOME,
                  argv |-> <<command_interpreter(preferences)>>]
    /\ view = apply_appearance(
                 [fg |-> <<>>, bg |-> <<>>, font_size |-> 0,
                  focus |-> "elsewhere"], preferences)
    /\ trace = <<SpawnEvent(NewPty({}), HOME,
                            <<command_interpreter(preferences)>>, TRUE)>>
    /\ lastOp = "TerminalPluginWidget.__init__"
    /\ command = <<>>
    /\ raised = "none"
    /\ result = <<>>

Next ==
    \/ TerminalWindowExtension_init
    \/ on_page_changed
    \/ on_change_path_button
    \/ menu_reset
    \/ show_properties
    \/ copy_clipboard
    \/ paste_clipboard
    \/ on_button_press
    \/ on_key_press_event
    \/ preferences_set
    \/ filesystem_changes

Spec == Init /\ [][Next]_vars

----------------------------------------------------------------------------
(* The path property on its own: any folder path, any filesystem.          *)

DefaultPreferences ==
    [font_size |-> DEFAULT_FONT_SIZE,
     font_color |-> DEFAULT_FONT_COLOR,
     background_color |-> DEFAULT_BACKGROUND_COLOR,
     command_interpreter |-> DEFAULT_COMMAND_INTERPRETER,
     auto_switch_path_on_page_change |-> DEFAULT_AUTO_SWITCH_PATH_ON_PAGE_CHANGE]

InitWidget ==
    /\ preferences = DefaultPreferences
    /\ notified = NoFolder
    /\ ptys = spawn_sync({}, TRUE)
    /\ session = [pty |-> NewPty({}), dir |-> HOME,
                  argv |-> <<command_interpreter(preferences)>>]
    /\ view = apply_appearance(
                 [fg |-> <<>>, bg |-> <<>>, font_size |-> 0,
                  focus |-> "elsewhere"], preferences)
    /\ trace = <<>>
    /\ lastOp = "TerminalPluginWidget.__init__"
    /\ raised = "none"
    /\ result = <<>>

InitPath ==
    /\ InitWidget
    /\ pc = "path_ready"
    /\ folder \in {NoFolder} \cup {Folder(p) : p \in TreePaths}
    /\ fs \in TreeFs
    /\ vte = "feed_child_binary"
    /\ command = <<>>

\* Reading widget.path
read_path ==
    /\ pc = "path_ready"
    /\ IF folder.isset
       THEN /\ result' = path(folder.path, fs)
            /\ raised' = "none"
       ELSE /\ raised' = "AttributeError"
            /\ UNCHANGED result
    /\ pc' = "path_read"
    /\ lastOp' = "path"
    /\ UNCHANGED <<preferences, folder, notified, fs, vte, ptys, session, view,
                   trace, command>>

NextPath == read_path

SpecPath == InitPath /\ [][NextPath]_vars

----------------------------------------------------------------------------
(* execute_command on its own: any command string, either Vte API.         *)

InitExec ==
    /\ InitWidget
    /\ pc = "exec_ready"
    /\ folder = NoFolder
    /\ fs = {<<>>}
    /\ vte \in VteApis
    /\ command \in Commands

\* terminalview.execute_command(command)
call_execute_command ==
    /\ pc = "exec_ready"
    /\ LET r == execute_command(command, vte)
       IN  /\ trace' = [i \in 1 .. Len(r.fed) |-> FeedEvent(session.pty, r.fed[i])]
           /\ raised' = r.exc
    /\ pc' = "exec_done"
    /\ lastOp' = "execute_command"
    /\ UNCHANGED <<preferences, folder, notified, fs, vte, ptys, session, view,
                   command, result>>

NextExec == call_execute_command

SpecExec == InitExec /\ [][NextExec]_vars

----------------------------------------------------------------------------
(* Properties                                                              *)

ClearBytes == <<"c", "l", "e", "a", "r", "\n">>

SpawnAttempted(t) == \E i \in DOMAIN t : t[i].op = "spawn"
SpawnSucceeded(t) == \E i \in DOMAIN t : t[i].op = "spawn" /\ t[i].ok
SpawnFailed(t) == \E i \in DOMAIN t : t[i].op = "spawn" /\ ~t[i].ok
InputSent(t) == \E i \in DOMAIN t : t[i].op = "feed"

\* A step of the handler named op: every handler leaves its name in lastOp,
\* and only filesystem_changes, which leaves lastOp alone, changes fs.
StepOf(op) == lastOp' = op /\ fs' = fs

\* A step that delivers a page-changed notification.
PageChangedStep ==
    \/ StepOf("on_page_changed")
    \/ StepOf("TerminalWindowExtension.__init__") /\ notified'.isset

\* A step of a handler that calls reset_terminal.
ResetStep ==
    \/ PageChangedStep
    \/ StepOf("on_change_path_button")
    \/ StepOf("menu_reset")
    \/ StepOf("show_properties")

\* C1: a page-changed notification respawns the shell (and, the spawn having
\* succeeded, sends the clear command) exactly when
\* auto_switch_path_on_page_change is true at the call; when it is false
\* nothing is spawned, nothing is sent and the session stays as it was,
\* whether or not the new folder exists.
C1_PageChangeResetsIffAutoSwitch ==
    [][PageChangedStep =>
          LET auto == preferences["auto_switch_path_on_page_change"]
          IN  /\ auto <=> SpawnAttempted(trace')
              /\ auto /\ raised' = "none" =>
                    /\ SpawnSucceeded(trace')
                    /\ trace'[Len(trace')] = FeedEvent(session'.pty, ClearBytes)
              /\ ~auto =>
                    /\ trace' = <<>>
                    /\ raised' = "none"
                    /\ UNCHANGED <<ptys, session>>]_vars

\* C1 witness: a page change to a folder that does not exist, with auto-switch
\* off: nothing was spawned and the session is still in $HOME.
C1_Witness ==
    /\ lastOp = "on_page_changed"
    /\ ~preferences["auto_switch_path_on_page_change"]
    /\ folder.isset /\ folder.path \notin fs
    /\ trace = <<>>
    /\ session.dir = HOME

\* C2: for a folder path P the path property returns P itself when P is an
\* existing directory and otherwise P without its last component; it raises
\* nothing, also when neither exists, and it assigns nothing.
C2_PathIsFolderOrParent ==
    /\ [](pc = "path_read" /\ folder.isset =>
            /\ raised = "none"
            /\ folder.path \in fs => result = folder.path
            /\ folder.path \notin fs =>
                  /\ Len(result) = Len(folder.path) - 1
                  /\ \A i \in 1 .. Len(result) : result[i] = folder.path[i])
    /\ [][pc = "path_ready" /\ pc' = "path_read" =>
            UNCHANGED <<folder, fs, preferences, ptys, session, view, trace>>]_vars

\* C2 witness: the path was read while neither the folder nor its parent exists.
C2_Witness ==
    /\ pc = "path_read"
    /\ folder.isset
    /\ folder.path \notin fs
    /\ Parent(folder.path) \notin fs
    /\ raised = "none"
    /\ result = Parent(folder.path)

\* C3: a reset whose spawn succeeds is exactly: spawn the configured
\* interpreter in the resolved directory, then the bytes "clear\n" to the new
\* session and nothing else; input a reset sends never precedes the spawn and
\* never goes to the session the spawn superseded.
C3_ResetIsSpawnThenClear ==
    [][ResetStep =>
          /\ SpawnSucceeded(trace') =>
                /\ trace' = <<SpawnEvent(session'.pty, session'.dir, session'.argv, TRUE),
                              FeedEvent(session'.pty, ClearBytes)>>
                /\ session'.pty \notin ptys
                /\ session'.dir = (IF folder'.path \in fs THEN folder'.path
                                   ELSE Parent(folder'.path))
                /\ session'.argv = <<preferences'["command_interpreter"]>>
          /\ \A i \in DOMAIN trace' :
                trace'[i].op = "feed" =>
                   /\ i > 1
                   /\ trace'[i - 1].op = "spawn" /\ trace'[i - 1].ok
                   /\ trace'[i].pty = trace'[i - 1].pty
                   /\ trace'[i].pty \notin ptys
                   /\ trace'[i].data = ClearBytes]_vars

\* C3 witness: the menu's Reset replaced a session that was itself the
\* product of a reset, and the clear command went to the new one.
C3_Witness ==
    /\ lastOp = "menu_reset"
    /\ raised = "none"
    /\ session.pty = 1
    /\ trace = <<SpawnEvent(1, session.dir, session.argv, TRUE),
                 FeedEvent(1, ClearBytes)>>
    /\ session.dir # HOME

\* C4: execute_command delivers the text itself when it ends in a newline and
\* the text plus one newline otherwise.
C4_TerminatorAppendedOnce ==
    pc = "exec_done" =>
       /\ raised = "none"
       /\ trace = <<FeedEvent(session.pty,
                      IF command # <<>> /\ command[Len(command)] = "\n"
                      THEN encode(command)
                      ELSE encode(command) \o <<"\n">>)>>

\* C5: the view references exactly one session, the one spawned last.
C5_OneSessionReferenced ==
    /\ Cardinality(ptys) = 1
    /\ ptys = {session.pty}

\* C5 witness: two successful resets after construction.
C5_Witness ==
    /\ lastOp = "on_change_path_button"
    /\ raised = "none"
    /\ SpawnSucceeded(trace)
    /\ session.pty = 1

\* C6: when the spawn of a reset fails, the handler leaves with the spawn's
\* error and no input was sent; the session referenced stays the old one, and
\* a failure while the extension is constructed aborts the construction.
C6_SpawnFailureSurfaces ==
    SpawnFailed(trace) =>
       /\ raised = "GLib.Error"
       /\ ~InputSent(trace)
       /\ lastOp = "TerminalWindowExtension.__init__" => pc = "failed"

\* C6 witness: the spawn failed after the preferences dialog was confirmed.
C6_Witness ==
    /\ lastOp = "show_properties"
    /\ SpawnFailed(trace)
    /\ raised = "GLib.Error"

\* C7: storing a preference runs on_preferences_changed, which sets the
\* view's colours and font size from the preferences and nothing else: no
\* spawn, no input, the session, its directory and the folder as before.
C7_PreferencesChangedOnlyRestyles ==
    [][StepOf("preferences_set") /\ raised' = "none" =>
          /\ trace' = <<>>
          /\ UNCHANGED <<ptys, session, folder, notified, fs>>
          /\ view' = [view EXCEPT
                         !.fg = font_color(preferences'),
                         !.bg = background_color(preferences'),
                         !.font_size = preferences'["font_size"] * PANGO_SCALE]]_vars

\* C7 witness: the font colour was changed under a session that a page change
\* had put into the page's folder.
C7_Witness ==
    /\ lastOp = "preferences_set"
    /\ raised = "none"
    /\ folder.isset
    /\ session.dir = folder.path
    /\ view.fg = rgba_parse("#000000")

C9_RefreshAlwaysResets ==
    [][StepOf("on_change_path_button") =>
          /\ trace' # <<>>
          /\ trace'[1].op = "spawn"
          /\ trace'[1].dir = path(notified.path, fs)
          /\ trace'[1].argv = <<preferences["command_interpreter"]>>]_vars

\* C10: wherever a reset can be triggered the folder has been set, so that no
\* reset fails reading it.
C10_FolderSetBeforeReset ==
    /\ pc = "running" => folder.isset
    /\ raised # "AttributeError"

====
